---- MODULE Spec2Model ----
(***************************************************************************)
(* ItemService (src/ServerScriptService/Services/Item/ItemService.ts):     *)
(* PurchaseItem, CreateItem and GetItem running as Luau threads on the     *)
(* cooperative Roblox scheduler.  A thread runs until it returns, throws   *)
(* or reaches a yielding call; the only yielding call of the service is    *)
(* Workspace.WaitForChild in GetItem.                                      *)
(*                                                                         *)
(* Coordinates are integers in half-studs, so that Size.Y / 2 is exact.    *)
(***************************************************************************)
EXTENDS Integers, Sequences, FiniteSets, TLC

\* ---------------------------------------------------------------- bounds
MaxInstances == 2
MaxBalance == 2

\* ------------------------------------------------------------ the inputs
Threads == {"t1", "t2"}
Users == {"u1", "u2"}
Ids == {"i1", "i2"}
NoThread == "none"
NoCFrame == <<>>
CFrameArgs == {NoCFrame, <<1, 3, 0>>}

\* Poses a caller passes in the main specification: none.
NoPose == {NoCFrame}

\* Currency enum members, as getSymmetricEnumMembers(Currency) lists them.
Currency == {"Gold", "Gem"}

\* The registry: T1 and T2 can be bought, T3 has no BUY entry (it can only
\* be sold).  Amounts are non-negative; a currency without entry costs 0.
\* Size.Y of the primary part is in half-studs.
ItemRegistry ==
  [r \in {"T1", "T2", "T3"} |->
     CASE r = "T1" -> [price |-> [e \in {"BUY"} |-> [c \in {"Gold"} |-> 1]],
                       sizeY |-> 2]
       [] r = "T2" -> [price |-> [e \in {"BUY"} |-> [c \in {"Gold", "Gem"} |->
                                                     IF c = "Gold" THEN 2 ELSE 1]],
                       sizeY |-> 6]
       [] r = "T3" -> [price |-> [e \in {"SELL"} |-> [c \in {"Gold"} |-> 1]],
                       sizeY |-> 2]]

\* What a user starts with: Gold, and Gems or none.
StartBalances ==
  {[c \in Currency |-> IF c = "Gold" THEN MaxBalance ELSE g] : g \in {0, MaxBalance}}

\* Register ids a caller may pass: the registered ones and one that is not.
RegisterIds == DOMAIN ItemRegistry \cup {"ghost"}

\* ------------------------------------------------------------- the state
VARIABLES
  Balance,      \* user.attributes.Balance_<currency>, per user
  PlacedItems,  \* user.PlacedItems: instance uuid -> component (instance index)
  instances,    \* every model cloned so far, with its Parent
  cur,          \* the running thread, or NoThread
  pc,           \* each thread's position
  op,           \* the operation each thread runs
  arg,          \* its arguments
  loc,          \* its locals
  ret,          \* its result, once it is done
  entry         \* the state the call started from

vars == <<Balance, PlacedItems, instances, cur, pc, op, arg, loc, ret, entry>>

EmptyMap == [k \in {} |-> 0]
NoArg == [user |-> "", register |-> "", instance |-> "", cframe |-> NoCFrame]
NoLoc == [obj |-> 0, cframe |-> NoCFrame, rounded |-> NoCFrame]
NoRet == [tag |-> "none", val |-> 0]
NoEntry == [Balance |-> <<>>, PlacedItems |-> <<>>, instances |-> <<>>]

\* ----------------------------------------------------- the pure functions

\* Result.err(GenericError.NOT_FOUND), Result.err(GenericError.FORBIDDEN)
FORBIDDEN == [tag |-> "FORBIDDEN", val |-> 0]
NOT_FOUND_AsForbidden == FORBIDDEN
NOT_FOUND == [tag |-> "NOT_FOUND", val |-> 0]

\* ItemRegistry[registerUUID] is truthy.
Registered(r) == r \in DOMAIN ItemRegistry

\* register.price[PricingExchangeType.BUY] is truthy.
HasAnyPrice(r) == DOMAIN ItemRegistry[r].price # {}
HasBuyPrice(r) == "BUY" \in DOMAIN ItemRegistry[r].price

\* register.price[BUY]?.[currency] ?? 0
BuyPrice(r, c) ==
  IF "BUY" \in DOMAIN ItemRegistry[r].price
     /\ c \in DOMAIN ItemRegistry[r].price["BUY"]
  THEN ItemRegistry[r].price["BUY"][c]
  ELSE 0

\* getSymmetricEnumMembers(Currency).some(balance < price)
LacksGold(bal, r) == bal["Gold"] < BuyPrice(r, "Gold")
LacksEvery(bal, r) == \A c \in Currency : bal[c] < BuyPrice(r, c)
LacksFunds(bal, r) == \E c \in Currency : bal[c] < BuyPrice(r, c)

\* getSymmetricEnumMembers(Currency).forEach(balance -= price)
DebitDeferred(bal, r) == bal
DebitTwice(bal, r) == [c \in Currency |-> bal[c] - 2 * BuyPrice(r, c)]
Debit(bal, r) == [c \in Currency |-> bal[c] - BuyPrice(r, c)]

\* HttpService.GenerateGUID(false): an id that no model and no call uses.
GenerateGUID ==
  Ids \ ({instances[i].ItemInstanceUUID : i \in 1..Len(instances)}
         \cup {arg[t].instance : t \in Threads})

\* new CFrame(new Vector3(0, model.PrimaryPart.Size.Y / 2, 0))
DefaultCFrameFullHeight(r) == <<0, ItemRegistry[r].sizeY, 0>>
DefaultCFrame(r) == <<0, ItemRegistry[r].sizeY \div 2, 0>>

\* ItemMovementService.AdjustCFrame: every coordinate rounded to the nearest
\* whole stud (halves round up).
GridSize == 2
Snap(x) == ((x + (GridSize \div 2)) \div GridSize) * GridSize
AdjustCFrame(cf) == <<Snap(cf[1]), Snap(cf[2]), Snap(cf[3])>>

\* Map.set(k, v)
MapSetOnly(m, k, v) == [x \in {k} |-> v]
MapSet(m, k, v) == [x \in (DOMAIN m) \cup {k} |-> IF x = k THEN v ELSE m[x]]

\* model.Clone() of a registered model: unparented, pivoted to the origin by
\* the constructor, no attributes, no tags, no component.
Clone(r) ==
  [Name |-> r, Parent |-> "nil", User |-> "", ItemInstanceUUID |-> "",
   ItemRegisterUUID |-> "", Tags |-> {}, CFrame |-> <<0, 0, 0>>,
   component |-> FALSE]

\* The children of Workspace with a given name.
Children(name) ==
  {i \in 1..Len(instances) :
     instances[i].Parent = "Workspace" /\ instances[i].Name = name}

\* The child WaitForChild / FindFirstChild returns: the first one.
FirstChild(name) ==
  CHOOSE i \in Children(name) : \A j \in Children(name) : i <= j

\* ---------------------------------------------------------- the scheduler

\* The positions at which a thread yields to the scheduler.
YieldPointsAndDebit == {"g_waiting", "p_debit"}
YieldPoints == {"g_waiting"}

\* Who runs after thread t moved to position p.
Sched(t, p) == IF p \in YieldPoints THEN NoThread ELSE t

\* A yielded thread can be resumed: a waiting GetItem once the child exists.
Runnable(t) ==
  /\ pc[t] \in YieldPoints
  /\ pc[t] = "g_waiting" => Children(arg[t].instance) # {}

Goto(t, p) ==
  /\ pc' = [pc EXCEPT ![t] = p]
  /\ cur' = Sched(t, p)

\* The call of thread t ends with result r (a return or a thrown error);
\* the thread goes on running in the caller.
Return(t, r) ==
  /\ pc' = [pc EXCEPT ![t] = "done"]
  /\ ret' = [ret EXCEPT ![t] = r]
  /\ UNCHANGED <<cur, loc, entry>>

\* Thread t calls operation o with arguments a.  entry keeps the state a
\* call of a mutating operation started from.
Begin(t, o, a, p) ==
  /\ cur = NoThread
  /\ pc[t] = "idle"
  /\ op' = [op EXCEPT ![t] = o]
  /\ arg' = [arg EXCEPT ![t] = a]
  /\ loc' = [loc EXCEPT ![t] = NoLoc]
  /\ entry' = [entry EXCEPT ![t] =
                 IF o = "GetItem"
                 THEN NoEntry
                 ELSE [Balance |-> Balance, PlacedItems |-> PlacedItems,
                       instances |-> instances]]
  /\ Goto(t, p)

At(t, p) == cur = t /\ pc[t] = p

Init ==
  /\ \E b \in StartBalances : Balance = [u \in Users |-> b]
  /\ PlacedItems = [u \in Users |-> EmptyMap]
  /\ instances = <<>>
  /\ cur = NoThread
  /\ pc = [t \in Threads |-> "idle"]
  /\ op = [t \in Threads |-> "none"]
  /\ arg = [t \in Threads |-> NoArg]
  /\ loc = [t \in Threads |-> NoLoc]
  /\ ret = [t \in Threads |-> NoRet]
  /\ entry = [t \in Threads |-> NoEntry]

\* ----------------------------------------------------------- PurchaseItem

CallPurchaseItem(t, poses) ==
  \E u \in Users, r \in RegisterIds, cf \in poses :
    /\ Len(instances) < MaxInstances
    /\ GenerateGUID # {}
    /\ Begin(t, "PurchaseItem",
             [user |-> u, register |-> r, instance |-> "", cframe |-> cf],
             "p_resolve")
    /\ UNCHANGED <<ret, Balance, PlacedItems, instances>>

\* if (!register) return Result.err(GenericError.NOT_FOUND)
PurchaseResolve(t) ==
  /\ At(t, "p_resolve")
  /\ IF ~Registered(arg[t].register)
     THEN Return(t, NOT_FOUND)
     ELSE Goto(t, "p_buy") /\ UNCHANGED <<ret, loc, entry>>
  /\ UNCHANGED <<Balance, PlacedItems, instances, op, arg>>

\* if (!register.price[BUY]) return Result.err(GenericError.FORBIDDEN)
PurchaseBuyable(t) ==
  /\ At(t, "p_buy")
  /\ IF ~HasBuyPrice(arg[t].register)
     THEN Return(t, FORBIDDEN)
     ELSE Goto(t, "p_check") /\ UNCHANGED <<ret, loc, entry>>
  /\ UNCHANGED <<Balance, PlacedItems, instances, op, arg>>

\* if (some currency's balance < price) return Result.err(FORBIDDEN)
PurchaseCheck(t) ==
  /\ At(t, "p_check")
  /\ IF LacksFunds(Balance[arg[t].user], arg[t].register)
     THEN Return(t, FORBIDDEN)
     ELSE Goto(t, "p_debit") /\ UNCHANGED <<ret, loc, entry>>
  /\ UNCHANGED <<Balance, PlacedItems, instances, op, arg>>

\* forEach currency: balance -= price
PurchaseDebitShared(t) ==
  /\ At(t, "p_debit")
  /\ Balance' = [u \in Users |-> Debit(Balance[u], arg[t].register)]
  /\ Goto(t, "p_create")
  /\ UNCHANGED <<PlacedItems, instances, op, arg, loc, ret, entry>>

PurchaseDebit(t) ==
  /\ At(t, "p_debit")
  /\ Balance' = [Balance EXCEPT ![arg[t].user] = Debit(@, arg[t].register)]
  /\ Goto(t, "p_create")
  /\ UNCHANGED <<PlacedItems, instances, op, arg, loc, ret, entry>>

\* return this.CreateItem(user, registerUUID, undefined, position)
PurchaseCreateSwapped(t) ==
  /\ At(t, "p_create")
  /\ \E i \in GenerateGUID :
       arg' = [arg EXCEPT ![t].instance = arg[t].register, ![t].register = i]
  /\ Goto(t, "c_resolve")
  /\ UNCHANGED <<Balance, PlacedItems, instances, op, loc, ret, entry>>

PurchaseCreate(t) ==
  /\ At(t, "p_create")
  /\ \E i \in GenerateGUID :
       arg' = [arg EXCEPT ![t].instance = i]
  /\ Goto(t, "c_resolve")
  /\ UNCHANGED <<Balance, PlacedItems, instances, op, loc, ret, entry>>

\* ------------------------------------------------------------- CreateItem

\* A direct call: the instance uuid is supplied (any id) or generated (one
\* that is not in use).
CallCreateItem(t, poses) ==
  \E u \in Users, r \in RegisterIds, cf \in poses,
     i \in Ids \cup GenerateGUID :
    /\ Len(instances) < MaxInstances
    /\ Begin(t, "CreateItem",
             [user |-> u, register |-> r, instance |-> i, cframe |-> cf],
             "c_resolve")
    /\ UNCHANGED ret
    /\ UNCHANGED <<Balance, PlacedItems, instances>>

\* if (!ItemRegistry[register]) return Result.err(GenericError.NOT_FOUND)
CreateResolve(t) ==
  /\ At(t, "c_resolve")
  /\ IF ~Registered(arg[t].register)
     THEN Return(t, NOT_FOUND)
     ELSE Goto(t, "c_clone") /\ UNCHANGED <<ret, loc, entry>>
  /\ UNCHANGED <<Balance, PlacedItems, instances, op, arg>>

\* model = Clone(); cframe ??= default; rounded = AdjustCFrame(cframe)
CreateClone(t) ==
  /\ At(t, "c_clone")
  /\ instances' = Append(instances, Clone(arg[t].register))
  /\ LET cf == IF arg[t].cframe = NoCFrame
               THEN DefaultCFrame(arg[t].register)
               ELSE arg[t].cframe
     IN loc' = [loc EXCEPT ![t] = [obj |-> Len(instances) + 1, cframe |-> cf,
                                   rounded |-> AdjustCFrame(cf)]]
  /\ Goto(t, "c_pivot")
  /\ UNCHANGED <<Balance, PlacedItems, op, arg, ret, entry>>

\* model.PivotTo(cframe)
CreatePivotRounded(t) ==
  /\ At(t, "c_pivot")
  /\ instances' = [instances EXCEPT ![loc[t].obj].CFrame = loc[t].rounded]
  /\ Goto(t, "c_attrs")
  /\ UNCHANGED <<Balance, PlacedItems, op, arg, loc, ret, entry>>

CreatePivot(t) ==
  /\ At(t, "c_pivot")
  /\ instances' = [instances EXCEPT ![loc[t].obj].CFrame = loc[t].cframe]
  /\ Goto(t, "c_attrs")
  /\ UNCHANGED <<Balance, PlacedItems, op, arg, loc, ret, entry>>

\* SetAttribute("User" / "ItemInstanceUUID" / "ItemRegisterUUID"); Name = instance
CreateAttributesSwapped(t) ==
  /\ At(t, "c_attrs")
  /\ instances' = [instances EXCEPT ![loc[t].obj] =
                     [@ EXCEPT !.User = arg[t].user,
                               !.ItemInstanceUUID = arg[t].register,
                               !.ItemRegisterUUID = arg[t].instance,
                               !.Name = arg[t].instance]]
  /\ Goto(t, "c_parent")
  /\ UNCHANGED <<Balance, PlacedItems, op, arg, loc, ret, entry>>

CreateAttributes(t) ==
  /\ At(t, "c_attrs")
  /\ instances' = [instances EXCEPT ![loc[t].obj] =
                     [@ EXCEPT !.User = arg[t].user,
                               !.ItemInstanceUUID = arg[t].instance,
                               !.ItemRegisterUUID = arg[t].register,
                               !.Name = arg[t].instance]]
  /\ Goto(t, "c_parent")
  /\ UNCHANGED <<Balance, PlacedItems, op, arg, loc, ret, entry>>

\* model.Parent = Workspace
CreateParent(t) ==
  /\ At(t, "c_parent")
  /\ instances' = [instances EXCEPT ![loc[t].obj].Parent = "Workspace"]
  /\ Goto(t, "c_tag")
  /\ UNCHANGED <<Balance, PlacedItems, op, arg, loc, ret, entry>>

\* CollectionService.AddTag(model, CollectionTag.ITEM)
CreateTag(t) ==
  /\ At(t, "c_tag")
  /\ instances' = [instances EXCEPT ![loc[t].obj].Tags = @ \cup {"ITEM"}]
  /\ Goto(t, "c_bind")
  /\ UNCHANGED <<Balance, PlacedItems, op, arg, loc, ret, entry>>

\* component = getComponent(model); assert(component, ...)
CreateBindDestroying(t) ==
  /\ At(t, "c_bind")
  /\ \E bound \in BOOLEAN :
       IF bound
       THEN /\ instances' = [instances EXCEPT ![loc[t].obj].component = TRUE]
            /\ Goto(t, "c_adjust")
            /\ UNCHANGED <<ret, loc, entry>>
       ELSE /\ Return(t, [tag |-> "error", val |-> 0])
            /\ instances' = [instances EXCEPT ![loc[t].obj].Parent = "nil"]
  /\ UNCHANGED <<Balance, PlacedItems, op, arg>>

CreateBindLenient(t) ==
  /\ At(t, "c_bind")
  /\ \E bound \in BOOLEAN :
       instances' = [instances EXCEPT ![loc[t].obj].component = bound]
  /\ Goto(t, "c_adjust")
  /\ UNCHANGED <<Balance, PlacedItems, op, arg, loc, ret, entry>>

\* The binder yields a component or nothing; on nothing the assert throws.
CreateBind(t) ==
  /\ At(t, "c_bind")
  /\ \E bound \in BOOLEAN :
       IF bound
       THEN /\ instances' = [instances EXCEPT ![loc[t].obj].component = TRUE]
            /\ Goto(t, "c_adjust")
            /\ UNCHANGED <<ret, loc, entry>>
       ELSE /\ Return(t, [tag |-> "error", val |-> 0])
            /\ UNCHANGED instances
  /\ UNCHANGED <<Balance, PlacedItems, op, arg>>

\* component.instance.PivotTo(rounded)
CreateAdjustSkipped(t) ==
  /\ At(t, "c_adjust")
  /\ Goto(t, "c_record")
  /\ UNCHANGED <<Balance, PlacedItems, instances, op, arg, loc, ret, entry>>

CreateAdjust(t) ==
  /\ At(t, "c_adjust")
  /\ instances' = [instances EXCEPT ![loc[t].obj].CFrame = loc[t].rounded]
  /\ Goto(t, "c_record")
  /\ UNCHANGED <<Balance, PlacedItems, op, arg, loc, ret, entry>>

\* user.PlacedItems.set(component.attributes.ItemInstanceUUID, component);
CreateRecordCharging(t) ==
  /\ At(t, "c_record")
  /\ PlacedItems' =
       [PlacedItems EXCEPT ![arg[t].user] =
          MapSet(@, instances[loc[t].obj].ItemInstanceUUID, loc[t].obj)]
  /\ Balance' = [Balance EXCEPT ![arg[t].user] = Debit(@, arg[t].register)]
  /\ Return(t, [tag |-> "ok", val |-> loc[t].obj])
  /\ UNCHANGED <<instances, op, arg>>

\* return Result.ok(component)
CreateRecord(t) ==
  /\ At(t, "c_record")
  /\ PlacedItems' =
       [PlacedItems EXCEPT ![arg[t].user] =
          MapSet(@, instances[loc[t].obj].ItemInstanceUUID, loc[t].obj)]
  /\ Return(t, [tag |-> "ok", val |-> loc[t].obj])
  /\ UNCHANGED <<Balance, instances, op, arg>>

\* ---------------------------------------------------------------- GetItem

\* Option.wrap(getComponent(model)) for the child WaitForChild returned.
Lookup(i) ==
  IF instances[i].component
  THEN [tag |-> "some", val |-> i]
  ELSE [tag |-> "nothing", val |-> 0]

\* model = game.Workspace.WaitForChild(uuid): returns at once when the child
\* exists, and GetItem returns its component; otherwise the thread yields,
\* without timeout, until the child exists.
CallGetItem(t) ==
  \E i \in Ids :
    /\ Begin(t, "GetItem",
             [user |-> "", register |-> "", instance |-> i, cframe |-> NoCFrame],
             IF Children(i) # {} THEN "done" ELSE "g_waiting")
    /\ ret' = [ret EXCEPT ![t] =
                 IF Children(i) # {} THEN Lookup(FirstChild(i)) ELSE NoRet]
    /\ UNCHANGED <<Balance, PlacedItems, instances>>

\* WaitForChild resumed with the child; return Option.wrap(getComponent(model))
GetWaited(t) ==
  /\ At(t, "g_waiting")
  /\ Children(arg[t].instance) # {}
  /\ Return(t, Lookup(FirstChild(arg[t].instance)))
  /\ UNCHANGED <<Balance, PlacedItems, instances, op, arg>>

\* The caller has the result (or the error has unwound the thread): the
\* thread ends and the scheduler is free.
Finish(t) ==
  /\ At(t, "done")
  /\ pc' = [pc EXCEPT ![t] = "idle"]
  /\ op' = [op EXCEPT ![t] = "none"]
  /\ arg' = [arg EXCEPT ![t] = NoArg]
  /\ loc' = [loc EXCEPT ![t] = NoLoc]
  /\ ret' = [ret EXCEPT ![t] = NoRet]
  /\ entry' = [entry EXCEPT ![t] = NoEntry]
  /\ cur' = NoThread
  /\ UNCHANGED <<Balance, PlacedItems, instances>>

\* The scheduler resumes a yielded thread that can run.
Resume(t) ==
  /\ cur = NoThread
  /\ Runnable(t)
  /\ cur' = t
  /\ UNCHANGED <<Balance, PlacedItems, instances, pc, op, arg, loc, ret,
                 entry>>

\* --------------------------------------------------------- specification

Step(t) ==
  \/ PurchaseResolve(t) \/ PurchaseBuyable(t) \/ PurchaseCheck(t)
  \/ PurchaseDebit(t) \/ PurchaseCreate(t)
  \/ CreateResolve(t) \/ CreateClone(t) \/ CreatePivot(t)
  \/ CreateAttributes(t) \/ CreateParent(t) \/ CreateTag(t)
  \/ CreateBind(t) \/ CreateAdjust(t) \/ CreateRecord(t)
  \/ GetWaited(t)
  \/ Finish(t) \/ Resume(t)

\* The calls pass poses of the given set.
NextOver(poses) ==
  \E t \in Threads :
    \/ CallPurchaseItem(t, poses) \/ CallCreateItem(t, poses) \/ CallGetItem(t)
    \/ Step(t)

Next == NextOver(NoPose)

Spec == Init /\ [][Next]_vars

\* The scheduler keeps running whatever thread can run.
FairSpec == Spec /\ WF_vars(\E t \in Threads : Step(t))

\* The calls pass a pose or none; to keep the poses in reach, every call is
\* for the same user.
PoseUser == CHOOSE u \in Users : TRUE

PoseNext ==
  \E t \in Threads :
    \/ CallPurchaseItem(t, CFrameArgs) /\ arg'[t].user = PoseUser
    \/ CallCreateItem(t, CFrameArgs) /\ arg'[t].user = PoseUser
    \/ CallGetItem(t)
    \/ Step(t)

PoseSpec == Init /\ [][PoseNext]_vars

\* ------------------------------------------------------------- the claims

\* Thread t's call of operation o has returned (or thrown) and the caller
\* has not yet gone on.
Done(t, o) == pc[t] = "done" /\ op[t] = o

\* The price table's BUY amount, read off the registry.
Price(r, c) ==
  IF c \in DOMAIN ItemRegistry[r].price["BUY"]
  THEN ItemRegistry[r].price["BUY"][c]
  ELSE 0

Purchasable(r) ==
  r \in DOMAIN ItemRegistry /\ "BUY" \in DOMAIN ItemRegistry[r].price

\* The call of thread t left balances, placedItems and the models as they
\* were when it started.
NothingChanged(t) ==
  /\ Balance = entry[t].Balance
  /\ PlacedItems = entry[t].PlacedItems
  /\ instances = entry[t].instances

\* The children of Workspace.
World == {i \in 1..Len(instances) : instances[i].Parent = "Workspace"}

\* C1: no balance of any user in any currency is ever negative, whatever
\* calls ran and however they interleaved.
C1_BalancesNeverNegative ==
  \A u \in Users : \A c \in Currency : Balance[u][c] >= 0

\* A purchase has succeeded and spent the buyer's last Gold.
C1_Witness ==
  \E t \in Threads :
    /\ Done(t, "PurchaseItem")
    /\ ret[t].tag = "ok"
    /\ Balance[arg[t].user]["Gold"] = 0
    /\ entry[t].Balance[arg[t].user]["Gold"] > 0

\* C2: a purchase of a purchasable template whose BUY price exceeds the
\* user's balance in at least one currency returns Forbidden and changes no
\* balance, no placedItems and no model.
C2_InsufficientFundsAllOrNothing ==
  \A t \in Threads :
    ( /\ Done(t, "PurchaseItem")
      /\ Purchasable(arg[t].register)
      /\ \E c \in Currency :
           entry[t].Balance[arg[t].user][c] < Price(arg[t].register, c) )
    => ret[t] = [tag |-> "FORBIDDEN", val |-> 0] /\ NothingChanged(t)

\* Forbidden for lack of Gems while the Gold price could have been paid.
C2_Witness ==
  \E t \in Threads :
    /\ Done(t, "PurchaseItem")
    /\ Purchasable(arg[t].register)
    /\ ret[t].tag = "FORBIDDEN"
    /\ Balance[arg[t].user]["Gem"] < Price(arg[t].register, "Gem")
    /\ Price(arg[t].register, "Gold") > 0
    /\ Balance[arg[t].user]["Gold"] >= Price(arg[t].register, "Gold")

\* C3: a purchase of a registered template without BUY price entry returns
\* Forbidden, whatever the balance, and changes nothing.
C3_NoBuyPriceForbidden ==
  \A t \in Threads :
    ( /\ Done(t, "PurchaseItem")
      /\ arg[t].register \in DOMAIN ItemRegistry
      /\ "BUY" \notin DOMAIN ItemRegistry[arg[t].register].price )
    => ret[t] = [tag |-> "FORBIDDEN", val |-> 0] /\ NothingChanged(t)

\* Forbidden although the user holds every currency.
C3_Witness ==
  \E t \in Threads :
    /\ Done(t, "PurchaseItem")
    /\ arg[t].register \in DOMAIN ItemRegistry
    /\ "BUY" \notin DOMAIN ItemRegistry[arg[t].register].price
    /\ ret[t].tag = "FORBIDDEN"
    /\ \A c \in Currency : Balance[arg[t].user][c] > 0

\* C4: a purchase that returns success has taken exactly the BUY price (0
\* for a currency without entry) from each of the buyer's balances, once,
\* and has added exactly one entry to the buyer's placedItems, the others
\* kept.
C4_SuccessDebitsExactlyOnce ==
  \A t \in Threads :
    (Done(t, "PurchaseItem") /\ ret[t].tag = "ok")
    => LET u == arg[t].user
           old == entry[t].PlacedItems[u]
           new == PlacedItems[u]
       IN /\ \A c \in Currency :
               Balance[u][c] = entry[t].Balance[u][c] - Price(arg[t].register, c)
          /\ DOMAIN old \subseteq DOMAIN new
          /\ Cardinality(DOMAIN new \ DOMAIN old) = 1
          /\ \A k \in DOMAIN old : new[k] = old[k]

\* A successful purchase of a template that costs Gold and lists no Gem price.
C4_Witness ==
  \E t \in Threads :
    /\ Done(t, "PurchaseItem")
    /\ ret[t].tag = "ok"
    /\ Price(arg[t].register, "Gold") > 0
    /\ "Gem" \notin DOMAIN ItemRegistry[arg[t].register].price["BUY"]
    /\ Balance[arg[t].user]["Gem"] > 0

\* C5: PurchaseItem and CreateItem with a template id that is not in the
\* registry return NotFound and change no balance, no placedItems and no
\* world object.
C5_UnknownTemplateNotFound ==
  \A t \in Threads :
    ( /\ Done(t, "PurchaseItem") \/ Done(t, "CreateItem")
      /\ arg[t].register \notin DOMAIN ItemRegistry )
    => ret[t] = [tag |-> "NOT_FOUND", val |-> 0] /\ NothingChanged(t)

\* NotFound came back to a buyer with funds, in a world that holds items.
C5_Witness ==
  \E t \in Threads :
    /\ Done(t, "PurchaseItem")
    /\ arg[t].register \notin DOMAIN ItemRegistry
    /\ ret[t].tag = "NOT_FOUND"
    /\ Balance[arg[t].user]["Gold"] > 0
    /\ World # {}

\* C6: the funds check and the debit of a purchase are one atomic unit: when
\* a call debits, the buyer's balances are those it started from and checked
\* (no other call has changed them in between), so they cover the price.
C6_CheckAndDebitAtomic ==
  \A t \in Threads :
    (op[t] = "PurchaseItem" /\ pc[t] = "p_debit")
    => LET u == arg[t].user
       IN /\ Balance[u] = entry[t].Balance[u]
          /\ \A c \in Currency : Balance[u][c] >= Price(arg[t].register, c)

\* A call is about to debit a balance that cannot pay the price twice, while
\* another thread is suspended.
C6_Witness ==
  \E t \in Threads, t2 \in Threads :
    /\ t2 # t
    /\ pc[t2] = "g_waiting"
    /\ op[t] = "PurchaseItem" /\ pc[t] = "p_debit"
    /\ \E c \in Currency :
         Balance[arg[t].user][c] < 2 * Price(arg[t].register, c)

\* An item the engine has finished creating: bound, and no call still works
\* on it.
Placed(i) ==
  /\ i \in World
  /\ instances[i].component
  /\ \A t \in Threads : loc[t].obj = i => pc[t] = "done"

\* C7: no two placed items have the same instanceId.
C7_InstanceIdsUnique ==
  \A i \in 1..Len(instances) : \A j \in 1..Len(instances) :
    (Placed(i) /\ Placed(j) /\ i # j)
    => instances[i].ItemInstanceUUID # instances[j].ItemInstanceUUID

Owners(i) == {u \in Users : \E k \in DOMAIN PlacedItems[u] : PlacedItems[u][k] = i}

\* C8: every placed item is in exactly one user's placedItems, and every
\* instance id is a key of at most one user's placedItems.
C8_ExactlyOneOwner ==
  /\ \A i \in 1..Len(instances) : Placed(i) => Cardinality(Owners(i)) = 1
  /\ \A k \in Ids : Cardinality({u \in Users : k \in DOMAIN PlacedItems[u]}) <= 1

\* C9: a CreateItem call with a registered template whose model the binder
\* has bound returns success; after it the user's placedItems holds the new
\* item under its instance id, and every entry under another instance id is
\* still there, unchanged.
C9_SecondCreateKeepsFirst ==
  \A t \in Threads :
    ( /\ Done(t, "CreateItem")
      /\ arg[t].register \in DOMAIN ItemRegistry
      /\ loc[t].obj # 0
      /\ instances[loc[t].obj].component )
    => LET u == arg[t].user
           old == entry[t].PlacedItems[u]
           new == PlacedItems[u]
       IN /\ ret[t] = [tag |-> "ok", val |-> loc[t].obj]
          /\ arg[t].instance \in DOMAIN new
          /\ new[arg[t].instance] = loc[t].obj
          /\ instances[loc[t].obj].ItemInstanceUUID = arg[t].instance
          /\ \A k \in DOMAIN old \ {arg[t].instance} :
               /\ k \in DOMAIN new
               /\ new[k] = old[k]
               /\ instances[new[k]].ItemInstanceUUID = k

\* The second CreateItem of a user returned: two items, two instance ids.
C9_Witness ==
  \E t \in Threads :
    /\ Done(t, "CreateItem")
    /\ ret[t].tag = "ok"
    /\ DOMAIN entry[t].PlacedItems[arg[t].user] # {}
    /\ arg[t].instance \notin DOMAIN entry[t].PlacedItems[arg[t].user]
    /\ Cardinality(DOMAIN PlacedItems[arg[t].user]) = 2

\* C10: a GetItem that waits for an instance id returns "absent" unless a
\* world object of that name comes to exist.
C10_GetItemTerminates ==
  \A t \in Threads : \A k \in Ids :
    (pc[t] = "g_waiting" /\ arg[t].instance = k)
      ~> ((pc[t] = "done" /\ ret[t].tag = "nothing") \/ Children(k) # {})

\* A call that creates an item: CreateItem, or PurchaseItem delegating to it.
Creating(t) == op[t] \in {"CreateItem", "PurchaseItem"}

\* The half height of the template's primary part.
HalfHeight(r) == ItemRegistry[r].sizeY \div 2

\* The pose a call asks for: the supplied one, or the default one.
Candidate(t) ==
  IF arg[t].cframe = NoCFrame
  THEN <<0, HalfHeight(arg[t].register), 0>>
  ELSE arg[t].cframe

\* The normalizer accepts a pose: it leaves it as it is.
Accepted(cf) == AdjustCFrame(cf) = cf

\* C11: after a CreateItem or PurchaseItem that returned success, the new
\* item's pose is the normalizer's output for the candidate pose, and every
\* placed item's pose is one the normalizer accepts.
C11_PoseIsNormalized ==
  /\ \A t \in Threads :
       (Creating(t) /\ pc[t] = "done" /\ ret[t].tag = "ok")
       => instances[ret[t].val].CFrame = AdjustCFrame(Candidate(t))
  /\ \A i \in 1..Len(instances) : Placed(i) => Accepted(instances[i].CFrame)

\* A supplied pose that the normalizer does not accept was corrected.
C11_Witness ==
  \E t \in Threads :
    /\ Creating(t) /\ pc[t] = "done" /\ ret[t].tag = "ok"
    /\ arg[t].cframe # NoCFrame
    /\ ~Accepted(arg[t].cframe)
    /\ instances[ret[t].val].CFrame # arg[t].cframe

\* The ground reference: 0 y.
GroundY == 0

\* C12, as claimed: without a supplied pose the candidate pose has zero
\* horizontal coordinates and puts the anchor point (the pivot) at the
\* ground reference.
C12_AnchorAtGround ==
  \A t \in Threads :
    (Creating(t) /\ arg[t].cframe = NoCFrame /\ loc[t].obj # 0)
    => loc[t].cframe = <<0, GroundY, 0>>

\* C12, amended: without a supplied pose the candidate pose has zero
\* horizontal coordinates and puts the anchor point half the primary part's
\* height above the ground reference, so that the bottom of the primary part
\* is at the ground reference; this is the pose the first PivotTo applies.
C12_BottomAtGround ==
  \A t \in Threads :
    (Creating(t) /\ arg[t].cframe = NoCFrame /\ loc[t].obj # 0)
    => /\ loc[t].cframe[1] = 0
       /\ loc[t].cframe[3] = 0
       /\ loc[t].cframe[2] - HalfHeight(arg[t].register) = GroundY
       /\ pc[t] = "c_attrs" => instances[loc[t].obj].CFrame = loc[t].cframe

\* The default pose has just been applied and the anchor is above ground.
C12_Witness ==
  \E t \in Threads :
    /\ Creating(t) /\ arg[t].cframe = NoCFrame
    /\ pc[t] = "c_attrs"
    /\ instances[loc[t].obj].CFrame[2] > GroundY

\* C13: a step changes the balances or the placedItems of a user only when
\* it is a step of a call for that user; calls for other users, however
\* interleaved, leave them as they are.
C13_UsersIndependent ==
  [][\A u \in Users :
       (Balance'[u] # Balance[u] \/ PlacedItems'[u] # PlacedItems[u])
       => (cur # NoThread /\ arg[cur].user = u)]_vars

\* A purchase of one user went through while the other user, who owns an
\* item, kept what they had.
C13_Witness ==
  \E t \in Threads : \E u \in Users :
    /\ Done(t, "PurchaseItem") /\ ret[t].tag = "ok"
    /\ u # arg[t].user
    /\ Balance[arg[t].user] # entry[t].Balance[arg[t].user]
    /\ DOMAIN PlacedItems[u] # {}
    /\ Balance[u] = entry[t].Balance[u]
    /\ PlacedItems[u] = entry[t].PlacedItems[u]

\* Thread t's model is recorded in some user's placedItems.
Recorded(t) ==
  \E u \in Users : \E k \in DOMAIN PlacedItems[u] : PlacedItems[u][k] = loc[t].obj

\* C14: within a call the raw pose is applied first, then the model is bound
\* (parented, tagged, component resolved), then the normalized pose is
\* applied, and only then the item is recorded: a model that is parented
\* but not bound has the raw pose, a model that has the normalized pose is
\* bound, and a recorded model has the normalized pose.
C14_PoseOrder ==
  \A t \in Threads :
    (Creating(t) /\ loc[t].obj # 0)
    => LET m == instances[loc[t].obj]
       IN /\ "ITEM" \in m.Tags => m.Parent = "Workspace"
          /\ m.component => "ITEM" \in m.Tags
          /\ (m.Parent = "Workspace" /\ ~m.component) => m.CFrame = loc[t].cframe
          /\ (m.CFrame = loc[t].rounded /\ loc[t].rounded # loc[t].cframe)
             => m.component
          /\ m.CFrame \in {<<0, 0, 0>>, loc[t].cframe, loc[t].rounded}
          /\ Recorded(t) => (m.component /\ m.CFrame = loc[t].rounded)

\* The model is bound and still has the raw pose, which the normalizer will
\* change; it is not yet recorded.
C14_Witness ==
  \E t \in Threads :
    /\ Creating(t) /\ pc[t] = "c_adjust"
    /\ instances[loc[t].obj].component
    /\ instances[loc[t].obj].CFrame = loc[t].cframe
    /\ loc[t].rounded # loc[t].cframe
    /\ ~Recorded(t)

\* The binder produced no component for the model of thread t's call.
BinderFailed(t) ==
  /\ Creating(t) /\ pc[t] = "done"
  /\ loc[t].obj # 0
  /\ ~instances[loc[t].obj].component

\* C15: when the binder produces no handle for the spawned model, the call
\* ends abnormally, with neither a success nor a typed error, and no
\* placedItems has a new entry.
C15_BinderFailureAborts ==
  \A t \in Threads :
    BinderFailed(t)
    => /\ ret[t].tag = "error"
       /\ ret[t].tag \notin {"ok", "NOT_FOUND", "FORBIDDEN"}
       /\ PlacedItems = entry[t].PlacedItems
       /\ ~Recorded(t)

\* A direct CreateItem has aborted on a tagged, parented model.
C15_Witness ==
  \E t \in Threads :
    /\ BinderFailed(t)
    /\ op[t] = "CreateItem"
    /\ ret[t].tag = "error"
    /\ "ITEM" \in instances[loc[t].obj].Tags

\* C16: when creation fails after the debit of a purchase, the debit stays:
\* the buyer's balances are lower by the BUY price and no item was added to
\* placedItems.
C16_DebitNotReversed ==
  \A t \in Threads :
    (Done(t, "PurchaseItem") /\ ret[t].tag = "error")
    => /\ \A c \in Currency :
            Balance[arg[t].user][c]
              = entry[t].Balance[arg[t].user][c] - Price(arg[t].register, c)
       /\ PlacedItems = entry[t].PlacedItems

\* The buyer has paid and holds nothing.
C16_Witness ==
  \E t \in Threads :
    /\ Done(t, "PurchaseItem") /\ ret[t].tag = "error"
    /\ Balance[arg[t].user]["Gold"] < entry[t].Balance[arg[t].user]["Gold"]
    /\ DOMAIN PlacedItems[arg[t].user] = {}

\* C17: a purchase that returns NotFound or Forbidden has changed no
\* balance and no placedItems; the CreateItem a purchase calls after the
\* debit is called with a registered template, so it cannot return NotFound.
C17_TypedErrorBeforeDebit ==
  \A t \in Threads :
    /\ (Done(t, "PurchaseItem") /\ ret[t].tag \in {"NOT_FOUND", "FORBIDDEN"})
       => (Balance = entry[t].Balance /\ PlacedItems = entry[t].PlacedItems)
    /\ (op[t] = "PurchaseItem" /\ pc[t] = "c_resolve")
       => arg[t].register \in DOMAIN ItemRegistry

\* A typed error came back to a user who has bought before.
C17_Witness ==
  \E t \in Threads :
    /\ Done(t, "PurchaseItem")
    /\ ret[t].tag \in {"NOT_FOUND", "FORBIDDEN"}
    /\ DOMAIN PlacedItems[arg[t].user] # {}
    /\ \E b \in StartBalances : Balance[arg[t].user]["Gold"] < b["Gold"]

\* C18: the only step that changes a balance is the debit step of a
\* PurchaseItem; no step of a direct CreateItem call changes any balance.
C18_OnlyDebitChangesBalance ==
  [][/\ Balance' # Balance
        => (cur # NoThread /\ op[cur] = "PurchaseItem" /\ pc[cur] = "p_debit")
     /\ (cur # NoThread /\ op[cur] = "CreateItem") => Balance' = Balance]_vars

\* A direct CreateItem of a template the user could have paid for has
\* succeeded, and the user has what they had.
C18_Witness ==
  \E t \in Threads :
    /\ Done(t, "CreateItem") /\ ret[t].tag = "ok"
    /\ Purchasable(arg[t].register)
    /\ Price(arg[t].register, "Gold") > 0
    /\ Balance[arg[t].user]["Gold"] >= Price(arg[t].register, "Gold")
    /\ Balance = entry[t].Balance

\* C19: every entry (k, item) of a user's placedItems is an item whose
\* instance id is k, whose owner id is that user, whose template is in the
\* registry, and which is a world object named k.
C19_EntriesMatchItems ==
  \A u \in Users : \A k \in DOMAIN PlacedItems[u] :
    LET m == instances[PlacedItems[u][k]]
    IN /\ m.ItemInstanceUUID = k
       /\ m.User = u
       /\ m.ItemRegisterUUID \in DOMAIN ItemRegistry
       /\ m.Parent = "Workspace"
       /\ m.Name = k

\* An entry was replaced by a later item of the same instance id, and a
\* user holds two entries.
C19_Witness ==
  /\ \E u \in Users : \E k \in DOMAIN PlacedItems[u] :
       \E i \in 1..Len(instances) :
         /\ i # PlacedItems[u][k]
         /\ Placed(i)
         /\ instances[i].ItemInstanceUUID = k
         /\ instances[i].User = u
  /\ cur = NoThread

\* A tagged world object without component that no placedItems holds.
Untracked(i) ==
  /\ i \in World
  /\ "ITEM" \in instances[i].Tags
  /\ ~instances[i].component
  /\ Owners(i) = {}

\* C20: when a call aborts because the binder produced no handle, the
\* spawned model is parented to the world and tagged, and in no placedItems;
\* it stays so once no call works on it.
C20_AbortLeavesUntrackedObject ==
  [][/\ \A t \in Threads :
          (pc[t] = "c_bind" /\ pc'[t] = "done")
          => (ret'[t].tag = "error" /\ Untracked(loc[t].obj)')
     /\ \A i \in 1..Len(instances) :
          (Untracked(i) /\ \A t \in Threads : loc[t].obj = i => pc[t] = "done")
          => Untracked(i)']_vars

\* The call is over and forgotten; its model is still in the world,
\* untracked.
C20_Witness ==
  /\ cur = NoThread
  /\ \A t \in Threads : pc[t] = "idle"
  /\ \E i \in 1..Len(instances) : Untracked(i)

====
